---- MODULE Spec2Model ----
(***************************************************************************)
(* envguard: validation of an environment snapshot against a schema        *)
(* (validateEnv and its wrappers), schema loading (findSchemaFile,         *)
(* loadSchema, isValidSchema) and the command line (commandCheck,          *)
(* commandGenerate, main).                                                 *)
(*                                                                         *)
(* JavaScript values are modelled as follows.  A string is a TLA+ string.  *)
(* An object is a record holding exactly the properties that are defined   *)
(* (a property that is absent or undefined is not in the DOMAIN).  A       *)
(* schema is the sequence Object.entries(schema) of [key, config] pairs;   *)
(* schema keys are environment-variable names, which are not integer-like, *)
(* so Object.entries yields them in declaration order.  A config is a      *)
(* record with the tag t ("object" for an EnvVarSchema; "null", "string"   *)
(* or "array" for what an untyped schema file may hold instead).           *)
(***************************************************************************)
EXTENDS Integers, Sequences, FiniteSets, TLC

VARIABLES
    schema,     \* the EnvSchema handed to the library calls, as Object.entries
    env,        \* the environment snapshot (options.env / process.env)
    call,       \* the last library call and how it completed
    files,      \* the files that exist in the working directory
    module,     \* the exports of the schema file that import() evaluates
    cli         \* the command line process: arguments, position, output, exit code

vars == <<schema, env, call, files, module, cli>>

(***************************************************************************)
(* Bounds and value sets                                                   *)
(***************************************************************************)
MaxAllowed == 2

Keys == {"A", "B"}

\* "x" and "y" are the values allowed lists are made of, "z" is in no allowed list
EnvValues == {"", "x", "z"}

DefaultValues == {"", "x", "z"}

AllowedPool == <<"x", "y", "w">>

Undefined == "<undefined>"

\* the empty object {}
EmptyObject == <<>>

\* obj[f] = v
SetProp(obj, f, v) == [k \in (DOMAIN obj) \cup {f} |-> IF k = f THEN v ELSE obj[k]]

\* the object with the one property f when v is defined, {} otherwise
OptProp(f, v) == IF v = Undefined THEN EmptyObject ELSE (f :> v)

AllowedLists == {SubSeq(AllowedPool, 1, n) : n \in 0..MaxAllowed}

\* every EnvVarSchema over the value sets (each property present or not)
Configs ==
    {[t |-> "object", required |-> r] @@ d @@ a @@ ds :
        r \in BOOLEAN,
        d \in {EmptyObject} \cup {("default" :> v) : v \in DefaultValues},
        a \in {EmptyObject} \cup {("allowed" :> l) : l \in AllowedLists},
        ds \in {EmptyObject, ("description" :> "d")}}

\* every EnvSchema: distinct keys, in every declaration order
Schemas ==
    {<<>>}
    \cup {<<[key |-> k, config |-> c]>> : k \in Keys, c \in Configs}
    \cup {<<[key |-> k1, config |-> c1], [key |-> k2, config |-> c2]>> :
            <<k1, k2>> \in {p \in Keys \X Keys : p[1] # p[2]}, c1 \in Configs, c2 \in Configs}

\* every snapshot: a variable is unset, or set to a string (possibly empty)
Snapshots == UNION {[D -> EnvValues] : D \in SUBSET Keys}

SchemaKeys(s) == {s[i].key : i \in DOMAIN s}

(***************************************************************************)
(* validateEnv                                                             *)
(***************************************************************************)
\* env[key]
EnvGet(e, key) == IF key \in DOMAIN e THEN e[key] ELSE Undefined

\* config.default
ConfigDefault(config) ==
    IF config.t = "object" /\ "default" \in DOMAIN config THEN config.default ELSE Undefined

\* config.description
ConfigDescription(config) ==
    IF config.t = "object" /\ "description" \in DOMAIN config
    THEN config.description ELSE Undefined

\* config.allowed is defined
HasAllowed(config) == config.t = "object" /\ "allowed" \in DOMAIN config

\* const isRequired = config.required === true
IsRequired(config) ==
    config.t = "object" /\ "required" \in DOMAIN config /\ config.required = TRUE

\* const hasDefault = config.default !== undefined
HasDefault(config) == ConfigDefault(config) # Undefined

\* variant: the empty string counts as a value
HasValueDefinedOnly(value) == value # Undefined

\* const hasValue = value !== undefined && value !== ""
HasValue(value) == value # Undefined /\ value # ""

\* variant: value ?? config.default
EffectiveValueNullish(value, config) ==
    IF value # Undefined THEN value ELSE ConfigDefault(config)

\* const effectiveValue = hasValue ? value : config.default
EffectiveValue(value, config) == IF HasValue(value) THEN value ELSE ConfigDefault(config)

\* allowed.includes(v)
Includes(list, v) == \E i \in DOMAIN list : list[i] = v

\* variant: the negation of hasDefault is lost
FailsRequiredWithDefault(value, config) ==
    IsRequired(config) /\ ~HasValue(value) /\ HasDefault(config)

\* if (isRequired && !hasValue && !hasDefault)
FailsRequired(value, config) ==
    IsRequired(config) /\ ~HasValue(value) /\ ~HasDefault(config)

\* variant: the length test is lost, so an empty allowed list rejects every value
FailsAllowedNoLength(value, config) ==
    /\ HasAllowed(config)
    /\ EffectiveValue(value, config) # Undefined
    /\ ~Includes(config.allowed, EffectiveValue(value, config))

\* variant: only a value supplied by the snapshot is checked against allowed
FailsAllowedSuppliedOnly(value, config) ==
    /\ HasAllowed(config)
    /\ Len(config.allowed) > 0
    /\ HasValue(value)
    /\ ~Includes(config.allowed, value)

\* if (config.allowed && config.allowed.length > 0 && effectiveValue !== undefined)
\*   if (!config.allowed.includes(effectiveValue))
FailsAllowed(value, config) ==
    /\ HasAllowed(config)
    /\ Len(config.allowed) > 0
    /\ EffectiveValue(value, config) # Undefined
    /\ ~Includes(config.allowed, EffectiveValue(value, config))

\* variant: the missing-required record carries no expected list
MissingErrorNoExpected(key, config) ==
    [variable |-> key, message |-> <<"Missing environment variable: ", key>>]
        @@ OptProp("description", ConfigDescription(config))

\* the ValidationError pushed by the required check
MissingError(key, config) ==
    [variable |-> key, message |-> <<"Missing environment variable: ", key>>]
        @@ OptProp("description", ConfigDescription(config))
        @@ (IF HasAllowed(config) THEN ("expected" :> config.allowed) ELSE EmptyObject)

\* the ValidationError pushed by the allowed-values check
InvalidError(key, value, config) ==
    [variable |-> key,
     message |-> <<"Invalid value for ", key, ": \"", EffectiveValue(value, config), "\"">>]
        @@ OptProp("description", ConfigDescription(config))
        @@ (IF HasAllowed(config) THEN ("expected" :> config.allowed) ELSE EmptyObject)

\* variant: unshift instead of push
PushErrorsUnshift(errors, key, value, config) ==
    IF FailsRequired(value, config) THEN <<MissingError(key, config)>> \o errors
    ELSE IF FailsAllowed(value, config) THEN <<InvalidError(key, value, config)>> \o errors
    ELSE errors

\* errors after one iteration of the loop body
PushErrors(errors, key, value, config) ==
    IF FailsRequired(value, config) THEN Append(errors, MissingError(key, config))
    ELSE IF FailsAllowed(value, config) THEN Append(errors, InvalidError(key, value, config))
    ELSE errors

\* values[key] = effectiveValue (the property is created even when the value is undefined)
RecordValue(values, key, value, config) == SetProp(values, key, EffectiveValue(value, config))

\* for (const [key, config] of Object.entries(schema)) { ... }
\* reading a property of a null config raises a TypeError
RECURSIVE ValidateLoop(_, _, _, _)
ValidateLoop(entries, e, errors, values) ==
    IF entries = <<>> THEN [type |-> "normal", errors |-> errors, values |-> values]
    ELSE LET key == Head(entries).key
             config == Head(entries).config
             value == EnvGet(e, key)
         IN  IF config.t = "null" THEN [type |-> "throw", error |-> [name |-> "TypeError"]]
             ELSE ValidateLoop(Tail(entries), e,
                               PushErrors(errors, key, value, config),
                               RecordValue(values, key, value, config))

\* variant: if (error.description !== undefined)
RECURSIVE ErrorLinesDefinedOnly(_)
ErrorLinesDefinedOnly(errors) ==
    IF errors = <<>> THEN <<>>
    ELSE LET error == Head(errors)
         IN  <<<<"message", error.message>>>>
             \o (IF "description" \in DOMAIN error
                 THEN <<<<"description", error.description>>>> ELSE <<>>)
             \o (IF "expected" \in DOMAIN error /\ Len(error.expected) > 0
                 THEN <<<<"allowed", error.expected>>>> ELSE <<>>)
             \o <<<<"blank">>>>
             \o ErrorLinesDefinedOnly(Tail(errors))

\* the violations' lines in formatErrors; if (error.description) is false for undefined
\* and for the empty string
RECURSIVE ErrorLines(_)
ErrorLines(errors) ==
    IF errors = <<>> THEN <<>>
    ELSE LET error == Head(errors)
         IN  <<<<"message", error.message>>>>
             \o (IF "description" \in DOMAIN error /\ error.description # ""
                 THEN <<<<"description", error.description>>>> ELSE <<>>)
             \o (IF "expected" \in DOMAIN error /\ Len(error.expected) > 0
                 THEN <<<<"allowed", error.expected>>>> ELSE <<>>)
             \o <<<<"blank">>>>
             \o ErrorLines(Tail(errors))

\* formatErrors(errors): the lines joined by "\n"
formatErrors(errors) ==
    <<<<"blank">>, <<"header", "Environment validation failed">>, <<"blank">>>>
    \o ErrorLines(errors)

\* variant: throwOnError defaults to false
ThrowOnErrorDefaultFalse(options) ==
    IF "throwOnError" \in DOMAIN options THEN options.throwOnError ELSE FALSE

\* const { env = process.env, throwOnError = true } = options
ThrowOnError(options) ==
    IF "throwOnError" \in DOMAIN options THEN options.throwOnError ELSE TRUE

\* result.valid
Valid(errors) == Len(errors) = 0

\* variant: the message counts the violations from zero
ValidationFailedFromZero(errors) ==
    [name |-> "Error",
     message |-> <<"Environment validation failed: ", Len(errors) - 1, " error(s)">>]

\* the Error thrown when validation fails
ValidationFailed(errors) ==
    [name |-> "Error",
     message |-> <<"Environment validation failed: ", Len(errors), " error(s)">>]

\* validateEnv(schema, options): how the call completes and what it writes to stderr
validateEnv(s, options) ==
    LET loop == ValidateLoop(s, options.env, <<>>, EmptyObject)
    IN  IF loop.type = "throw" THEN [type |-> "throw", error |-> loop.error, stderr |-> <<>>]
        ELSE LET result == [valid |-> Valid(loop.errors),
                            errors |-> loop.errors,
                            values |-> loop.values]
             IN  IF ~result.valid /\ ThrowOnError(options)
                 THEN [type |-> "throw",
                       error |-> ValidationFailed(loop.errors),
                       stderr |-> <<formatErrors(loop.errors)>>]
                 ELSE [type |-> "return", value |-> result, stderr |-> <<>>]

(***************************************************************************)
(* Schema loading                                                          *)
(*                                                                         *)
(* A path is the pair <<directory, file name>>; files holds the names that *)
(* exist in the working directory.  What a schema file exports is a        *)
(* record tagged t: "string" (a primitive), "array" or "object", the       *)
(* latter two with their Object.entries.                                   *)
(***************************************************************************)
MaxFiles == 2

SCHEMA_FILE_NAMES ==
    <<"env.schema.ts", "env.schema.js", "env.schema.mjs", "env.schema.cjs",
      "envguard.config.ts", "envguard.config.js", "envguard.config.mjs",
      "envguard.config.cjs">>

SCHEMA_EXPORT_NAMES == <<"envSchema", "schema", "default">>

Cwd == "cwd"

\* the path a --schema argument names in the model
CustomFile == "custom.js"

NoPath == <<>>

\* join(cwd, fileName), resolve(cwd, filePath) for a relative filePath
Join(cwd, name) == <<cwd, name>>

\* existsSync(path)
existsSync(fs, path) == path # NoPath /\ path[1] = Cwd /\ path[2] \in fs

\* schemaPath.endsWith(".ts")
EndsWithTs(path) == path[2] \in {"env.schema.ts", "envguard.config.ts"}

Min(S) == CHOOSE n \in S : \A m \in S : n <= m

\* variant: the loop does not return at the first match, so the last match wins
findSchemaFileLast(cwd, fs) ==
    LET found == {i \in DOMAIN SCHEMA_FILE_NAMES :
                     existsSync(fs, Join(cwd, SCHEMA_FILE_NAMES[i]))}
    IN  IF found = {} THEN NoPath
        ELSE Join(cwd, SCHEMA_FILE_NAMES[CHOOSE i \in found : \A j \in found : j <= i])

\* findSchemaFile(cwd): the first candidate that exists, or null
findSchemaFile(cwd, fs) ==
    LET found == {i \in DOMAIN SCHEMA_FILE_NAMES :
                     existsSync(fs, Join(cwd, SCHEMA_FILE_NAMES[i]))}
    IN  IF found = {} THEN NoPath ELSE Join(cwd, SCHEMA_FILE_NAMES[Min(found)])

\* the keys of a module namespace object are sorted by code unit
ExportOrder == <<"A", "default", "envSchema", "schema">>

\* Object.entries(module)
ModuleEntries(mod) ==
    LET present == SelectSeq(ExportOrder, LAMBDA n : n \in DOMAIN mod)
    IN  [i \in DOMAIN present |-> [key |-> present[i], config |-> mod[present[i]]]]

\* the module namespace object itself, as a value
ModuleObject(mod) == [t |-> "object", entries |-> ModuleEntries(mod)]

\* typeof v === "object" for a truthy v
IsObjectType(v) == v.t \in {"object", "array"}

\* isValidSchema(obj)
isValidSchema(obj) ==
    /\ IsObjectType(obj)
    /\ Len(obj.entries) # 0
    /\ \A i \in DOMAIN obj.entries : obj.entries[i].config.t = "object"

NotFoundError ==
    [name |-> "Error", kind |-> "notFound",
     message |-> <<"Could not find schema file. Looked for:", SCHEMA_FILE_NAMES>>]

FileNotFoundError(path) ==
    [name |-> "Error", kind |-> "fileNotFound",
     message |-> <<"Schema file not found: ", path>>]

DoesNotExportError ==
    [name |-> "Error", kind |-> "invalid",
     message |-> <<"Schema file does not export a valid schema. Expected export named: ",
                   SCHEMA_EXPORT_NAMES>>]

\* how import(fileUrl) may end: the module, or an error (whose message may or may not
\* contain "does not export")
ImportOutcomes == {"module", "error", "errorDoesNotExport"}

ImportError(imp) == [name |-> "Error", kind |-> "import", message |-> <<imp>>]

\* error.message.includes("does not export")
IncludesDoesNotExport(error) ==
    error.kind = "invalid" \/ error.message = <<"errorDoesNotExport">>

\* if (module[exportName] && typeof module[exportName] === "object")
NamedExport(mod, i) ==
    /\ SCHEMA_EXPORT_NAMES[i] \in DOMAIN mod
    /\ IsObjectType(mod[SCHEMA_EXPORT_NAMES[i]])

\* the try block of loadSchema
TryLoad(mod, imp) ==
    IF imp # "module" THEN [type |-> "throw", error |-> ImportError(imp)]
    ELSE LET hits == {i \in DOMAIN SCHEMA_EXPORT_NAMES : NamedExport(mod, i)}
         IN  IF hits # {}
             THEN [type |-> "return", value |-> mod[SCHEMA_EXPORT_NAMES[Min(hits)]]]
             ELSE IF isValidSchema(ModuleObject(mod))
             THEN [type |-> "return", value |-> ModuleObject(mod)]
             ELSE [type |-> "throw", error |-> DoesNotExportError]

\* the catch block of loadSchema
CatchLoad(completion, schemaPath) ==
    IF completion.type = "return" THEN completion
    ELSE IF IncludesDoesNotExport(completion.error) THEN completion
    ELSE IF EndsWithTs(schemaPath)
    THEN [type |-> "throw",
          error |-> [name |-> "Error", kind |-> "typescript",
                     message |-> <<"Could not load TypeScript schema file: ", schemaPath,
                                   "Original error: ", completion.error.message>>]]
    ELSE [type |-> "throw",
          error |-> [name |-> "Error", kind |-> "loadFailed",
                     message |-> <<"Failed to load schema file: ", schemaPath,
                                   completion.error.message>>]]

\* const schemaPath = filePath ? resolve(cwd, filePath) : findSchemaFile(cwd)
SchemaPath(filePath, cwd, fs) ==
    IF filePath # Undefined THEN Join(cwd, filePath) ELSE findSchemaFile(cwd, fs)

\* the file handed to import(), if loadSchema gets that far
ImportedPath(filePath, cwd, fs) ==
    IF existsSync(fs, SchemaPath(filePath, cwd, fs)) THEN SchemaPath(filePath, cwd, fs)
    ELSE NoPath

\* loadSchema(filePath, cwd): the completion of the promise it returns
loadSchema(filePath, cwd, fs, mod, imp) ==
    LET schemaPath == SchemaPath(filePath, cwd, fs)
    IN  IF schemaPath = NoPath THEN [type |-> "throw", error |-> NotFoundError]
        ELSE IF ~existsSync(fs, schemaPath)
        THEN [type |-> "throw", error |-> FileNotFoundError(schemaPath)]
        ELSE CatchLoad(TryLoad(mod, imp), schemaPath)

\* what a schema file may export under a name
StringValue == [t |-> "string"]

ArrayValue == [t |-> "array", entries |-> <<[key |-> "0", config |-> [t |-> "string"]]>>]

SchemaObject(k, c) == [t |-> "object", entries |-> <<[key |-> k, config |-> c]>>]

RequiredConfig == [t |-> "object", required |-> TRUE]

EnumConfig ==
    [t |-> "object", required |-> FALSE, default |-> "x", allowed |-> <<"x", "y">>]

\* { A: { required: true }, B: { required: false, default: "x", allowed: ["x", "y"] } }
TwoVariableSchema ==
    [t |-> "object",
     entries |-> <<[key |-> "A", config |-> RequiredConfig],
                   [key |-> "B", config |-> EnumConfig]>>]

\* { A: null } and { A: "x" }: objects that are no EnvSchema
NullEntryObject == SchemaObject("A", [t |-> "null"])

StringEntryObject == SchemaObject("A", [t |-> "string"])

\* every module over these values
Modules ==
    {e @@ s @@ d @@ a :
        e \in {EmptyObject}
              \cup {("envSchema" :> v) : v \in {StringValue, ArrayValue, TwoVariableSchema,
                                                 NullEntryObject, StringEntryObject}},
        s \in {EmptyObject}
              \cup {("schema" :> v) : v \in {StringValue, SchemaObject("B", RequiredConfig),
                                              StringEntryObject}},
        d \in {EmptyObject}
              \cup {("default" :> v) : v \in {ArrayValue, SchemaObject("A", EnumConfig)}},
        a \in {EmptyObject} \cup {("A" :> v) : v \in {RequiredConfig, StringValue}}}

\* the working directories: at most MaxFiles of the candidate names exist
FileSets ==
    {F \in SUBSET ({SCHEMA_FILE_NAMES[i] : i \in DOMAIN SCHEMA_FILE_NAMES} \cup {CustomFile}) :
        Cardinality(F \ {CustomFile}) <= MaxFiles}

\* result.values[key]
GetProp(obj, key) == IF key \in DOMAIN obj THEN obj[key] ELSE Undefined

\* variant: { throwOnError: false, ...options }, so the caller's option wins
WrapperOptionsOverridden(options) ==
    IF "throwOnError" \in DOMAIN options THEN options ELSE SetProp(options, "throwOnError", FALSE)

\* { ...options, throwOnError: false }
WrapperOptions(options) == SetProp(options, "throwOnError", FALSE)

\* getEnv(schema, key, options)
getEnv(s, key, options) ==
    LET completion == validateEnv(s, WrapperOptions(options))
    IN  IF completion.type = "throw" THEN completion
        ELSE [type |-> "return", value |-> GetProp(completion.value.values, key),
              stderr |-> completion.stderr]

\* isEnvValid(schema, options)
isEnvValid(s, options) ==
    LET completion == validateEnv(s, WrapperOptions(options))
    IN  IF completion.type = "throw" THEN completion
        ELSE [type |-> "return", value |-> completion.value.valid,
              stderr |-> completion.stderr]

\* variant: the resolved values are written back into the snapshot
InputsAfterValuesWritten(s, e) ==
    LET values == ValidateLoop(s, e, <<>>, EmptyObject).values
    IN  [schema |-> s,
         env |-> [k \in DOMAIN e \cup {n \in DOMAIN values : values[n] # Undefined} |->
                     IF k \in DOMAIN values /\ values[k] # Undefined THEN values[k] ELSE e[k]]]

\* the schema and the snapshot after a call: validateEnv reads them and assigns only to
\* its own errors and values
InputsAfter(s, e) == [schema |-> s, env |-> e]

(***************************************************************************)
(* Library calls                                                           *)
(***************************************************************************)
\* the options a caller may pass: throwOnError true, false or omitted
OptionsOver(e) ==
    {[env |-> e], [env |-> e, throwOnError |-> TRUE], [env |-> e, throwOnError |-> FALSE]}

NoCall == [op |-> "none"]

IdleCli == [pc |-> "idle"]

Init ==
    /\ schema \in Schemas
    /\ env \in Snapshots
    /\ call = NoCall
    /\ files = {}
    /\ module = EmptyObject
    /\ cli = IdleCli

\* a caller invokes validateEnv(schema, options)
CallValidateEnv ==
    \E options \in OptionsOver(env) :
        /\ call' = [op |-> "validateEnv", options |-> options,
                    completion |-> validateEnv(schema, options)]
        /\ schema' = InputsAfter(schema, env).schema
        /\ env' = InputsAfter(schema, env).env
        /\ UNCHANGED <<files, module, cli>>

Next == CallValidateEnv

Spec == Init /\ [][Next]_vars

\* the EnvVarSchemas the diagnostic output is run on: the description may be the empty
\* string, the default is absent or "z"
DiagConfigs ==
    {[t |-> "object", required |-> r] @@ d @@ a @@ ds :
        r \in BOOLEAN,
        d \in {EmptyObject, ("default" :> "z")},
        a \in {EmptyObject} \cup {("allowed" :> l) : l \in AllowedLists},
        ds \in {EmptyObject} \cup {("description" :> v) : v \in {"", "d"}}}

DiagSchemas ==
    {<<>>}
    \cup {<<[key |-> k, config |-> c]>> : k \in Keys, c \in DiagConfigs}
    \cup {<<[key |-> k1, config |-> c1], [key |-> k2, config |-> c2]>> :
            <<k1, k2>> \in {p \in Keys \X Keys : p[1] # p[2]},
            c1 \in DiagConfigs, c2 \in DiagConfigs}

InitDiag ==
    /\ schema \in DiagSchemas
    /\ env \in Snapshots
    /\ call = NoCall
    /\ files = {}
    /\ module = EmptyObject
    /\ cli = IdleCli

SpecDiag == InitDiag /\ [][Next]_vars

\* the names getEnv is asked for: "C" is in no schema
GetEnvKeys == Keys \cup {"C"}

\* a caller invokes getEnv(schema, key, options)
CallGetEnv ==
    \E key \in GetEnvKeys, options \in OptionsOver(env) :
        /\ call' = [op |-> "getEnv", key |-> key, options |-> options,
                    completion |-> getEnv(schema, key, options)]
        /\ schema' = InputsAfter(schema, env).schema
        /\ env' = InputsAfter(schema, env).env
        /\ UNCHANGED <<files, module, cli>>

\* a caller invokes isEnvValid(schema, options)
CallIsEnvValid ==
    \E options \in OptionsOver(env) :
        /\ call' = [op |-> "isEnvValid", options |-> options,
                    completion |-> isEnvValid(schema, options)]
        /\ schema' = InputsAfter(schema, env).schema
        /\ env' = InputsAfter(schema, env).env
        /\ UNCHANGED <<files, module, cli>>

\* the schemas the three calls are run on together: no descriptions, at most one allowed
\* value per variable, "A" declared before "B"
CallSchemas ==
    {s \in Schemas :
        /\ \A i \in DOMAIN s :
              /\ "description" \notin DOMAIN s[i].config
              /\ HasAllowed(s[i].config) => Len(s[i].config.allowed) <= 1
        /\ Len(s) = 2 => s[1].key = "A"}

InitCalls ==
    /\ schema \in CallSchemas
    /\ env \in Snapshots
    /\ call = NoCall
    /\ files = {}
    /\ module = EmptyObject
    /\ cli = IdleCli

NextCalls == CallValidateEnv \/ CallGetEnv \/ CallIsEnvValid

SpecCalls == InitCalls /\ [][NextCalls]_vars

InitLoad ==
    /\ schema = <<>>
    /\ env = EmptyObject
    /\ call = NoCall
    /\ files \in FileSets
    /\ module \in Modules
    /\ cli = IdleCli

\* a caller awaits loadSchema(filePath); import() ends one way or another
CallLoadSchema ==
    \E filePath \in {Undefined, CustomFile}, imp \in ImportOutcomes :
        /\ call' = [op |-> "loadSchema", filePath |-> filePath, imp |-> imp,
                    imported |-> ImportedPath(filePath, Cwd, files),
                    completion |-> loadSchema(filePath, Cwd, files, module, imp)]
        /\ UNCHANGED <<schema, env, files, module, cli>>

\* a caller invokes findSchemaFile()
CallFindSchemaFile ==
    /\ call' = [op |-> "findSchemaFile",
                completion |-> [type |-> "return", value |-> findSchemaFile(Cwd, files)]]
    /\ UNCHANGED <<schema, env, files, module, cli>>

NextLoad == CallLoadSchema \/ CallFindSchemaFile

SpecLoad == InitLoad /\ [][NextLoad]_vars

(***************************************************************************)
(* Command line                                                            *)
(*                                                                         *)
(* cli.pc is the position of the process: "start" (main is entered),       *)
(* "load" (the command awaits loadSchema), "validate", "writeMarkdown",    *)
(* "writeEnvExample" (the command's continuation), "exit" (the command has *)
(* returned its exit code to main) and "exited" (process.exit was called). *)
(* cli.steps records the steps attempted and how each ended, cli.written   *)
(* the artifacts written, cli.log the lines printed.                       *)
(***************************************************************************)
MdFile == "ENVIRONMENT.md"

EnvFile == ".env.example"

Commands == {"generate", "check", "help", "version", "", "bogus"}

\* the parsed CliArgs: the command, and the --schema path when given
CliArgs == {[command |-> c] : c \in Commands}
           \cup {[command |-> c, schema |-> CustomFile] : c \in Commands}

\* args.schema
ArgSchema(args) == IF "schema" \in DOMAIN args THEN args.schema ELSE Undefined

\* const schemaPath = args.schema ? args.schema : findSchemaFile(args.cwd); !!schemaPath
Located(args, fs) == ArgSchema(args) # Undefined \/ findSchemaFile(Cwd, fs) # NoPath

\* variant: the error is not caught by the command and reaches main().catch
CommandRethrow(c, err) ==
    [c EXCEPT !.log = Append(@, <<"uncaught", err.message>>), !.exitCode = 1,
              !.uncaught = TRUE, !.pc = "exit"]

\* catch (err) { error(message); return 1; }
CommandCatch(c, err) ==
    [c EXCEPT !.log = Append(@, <<"error", err.message>>), !.exitCode = 1, !.pc = "exit"]

\* the exit code commandCheck returns for a validation result
CheckExitCode(result) == IF result.valid THEN 0 ELSE 1

\* the lines commandCheck prints for a validation result
CheckLog(result) ==
    IF result.valid THEN <<<<"success", "All environment variables are valid!">>>>
    ELSE [i \in DOMAIN result.errors |-> <<"error", result.errors[i].message>>]
         \o <<<<"error", "Validation failed with", Len(result.errors), "error(s)">>>>

\* variant: a failed write is swallowed and the command goes on
WriteMarkdownStepSwallow(c, ok) ==
    [c EXCEPT !.steps = Append(@, [step |-> "writeMarkdown", ok |-> ok]),
              !.written = IF ok THEN Append(@, MdFile) ELSE @,
              !.log = IF ok THEN Append(@, <<"success", "Generated", MdFile>>) ELSE @,
              !.pc = "writeEnvExample"]

\* writeMarkdown(schema, ...); success(`Generated ${args.mdFile}`)
WriteMarkdownStep(c, ok) ==
    IF ok
    THEN [c EXCEPT !.steps = Append(@, [step |-> "writeMarkdown", ok |-> TRUE]),
                   !.written = Append(@, MdFile),
                   !.log = Append(@, <<"success", "Generated", MdFile>>),
                   !.pc = "writeEnvExample"]
    ELSE CommandCatch([c EXCEPT !.steps = Append(@, [step |-> "writeMarkdown", ok |-> FALSE])],
                      [message |-> <<"writeMarkdown failed">>])

\* writeEnvExample(schema, ...); success(`Generated ${args.envFile}`); ...; return 0
WriteEnvExampleStep(c, ok) ==
    IF ok
    THEN [c EXCEPT !.steps = Append(@, [step |-> "writeEnvExample", ok |-> TRUE]),
                   !.written = Append(@, EnvFile),
                   !.log = @ \o <<<<"success", "Generated", EnvFile>>,
                                  <<"success", "Done! Files generated successfully.">>>>,
                   !.exitCode = 0,
                   !.pc = "exit"]
    ELSE CommandCatch([c EXCEPT !.steps = Append(@, [step |-> "writeEnvExample", ok |-> FALSE])],
                      [message |-> <<"writeEnvExample failed">>])

\* the schema files and working directories the command line is run on
CliModules ==
    {EmptyObject,
     [envSchema |-> TwoVariableSchema],
     [envSchema |-> NullEntryObject],
     [envSchema |-> StringValue, schema |-> SchemaObject("B", RequiredConfig)],
     [envSchema |-> StringValue],
     [A |-> RequiredConfig]}

CliFileSets == SUBSET {"env.schema.ts", "envguard.config.js", CustomFile}

StartCli(args) ==
    [pc |-> "start", args |-> args, imp |-> "none", load |-> [type |-> "none"],
     steps |-> <<>>, log |-> <<>>, written |-> <<>>, exitCode |-> 0, uncaught |-> FALSE]

InitCli ==
    /\ schema = <<>>
    /\ env \in Snapshots
    /\ call = NoCall
    /\ files \in CliFileSets
    /\ module \in CliModules
    /\ cli \in {StartCli(args) : args \in CliArgs}

\* main: case "generate" / case "check", up to the command's await loadSchema(...)
MainCommand ==
    /\ cli.pc = "start"
    /\ cli.args.command \in {"generate", "check"}
    /\ IF ~Located(cli.args, files)
       THEN cli' = [cli EXCEPT !.log = @ \o <<<<"banner">>,
                                               <<"error", "Could not find schema file!">>,
                                               <<"info", SCHEMA_FILE_NAMES>>>>,
                               !.exitCode = 1,
                               !.pc = "exit"]
       ELSE cli' = [cli EXCEPT !.log = @ \o <<<<"banner">>, <<"info", "Loading schema from">>>>,
                               !.pc = "load"]
    /\ UNCHANGED <<schema, env, call, files, module>>

\* main: case "version", case "help", case "", default
MainOther ==
    /\ cli.pc = "start"
    /\ cli.args.command \notin {"generate", "check"}
    /\ cli' = [cli EXCEPT
                  !.log = IF cli.args.command = "version" THEN Append(@, <<"version">>)
                          ELSE IF cli.args.command \in {"help", ""} THEN Append(@, <<"help">>)
                          ELSE @ \o <<<<"error", "Unknown command:", cli.args.command>>,
                                      <<"help">>>>,
                  !.exitCode = IF cli.args.command \in {"version", "help", ""} THEN 0 ELSE 1,
                  !.pc = "exit"]
    /\ UNCHANGED <<schema, env, call, files, module>>

\* const schema = await loadSchema(args.schema, args.cwd), and the lines up to the next step
AwaitLoadSchema ==
    /\ cli.pc = "load"
    /\ \E imp \in ImportOutcomes :
          LET completion == loadSchema(ArgSchema(cli.args), Cwd, files, module, imp)
              tried == [cli EXCEPT !.imp = imp,
                                   !.load = completion,
                                   !.steps = Append(@, [step |-> "loadSchema",
                                                        ok |-> completion.type = "return"])]
          IN  cli' = IF completion.type = "throw" THEN CommandCatch(tried, completion.error)
                     ELSE [tried EXCEPT
                              !.log = Append(@, <<"info", "variables",
                                                  Len(completion.value.entries)>>),
                              !.pc = IF cli.args.command = "check" THEN "validate"
                                     ELSE "writeMarkdown"]
    /\ UNCHANGED <<schema, env, call, files, module>>

\* commandCheck: validateEnv(schema, { throwOnError: false }) on process.env and the return
CheckValidate ==
    /\ cli.pc = "validate"
    /\ LET completion == validateEnv(cli.load.value.entries,
                                     [env |-> env, throwOnError |-> FALSE])
       IN  cli' = IF completion.type = "throw"
                  THEN CommandCatch(cli, [message |-> <<completion.error.name>>])
                  ELSE [cli EXCEPT !.log = @ \o CheckLog(completion.value),
                                   !.exitCode = CheckExitCode(completion.value),
                                   !.pc = "exit"]
    /\ UNCHANGED <<schema, env, call, files, module>>

\* commandGenerate: writeMarkdown, which writes the file or throws
GenerateWriteMarkdown ==
    /\ cli.pc = "writeMarkdown"
    /\ \E ok \in BOOLEAN : cli' = WriteMarkdownStep(cli, ok)
    /\ UNCHANGED <<schema, env, call, files, module>>

\* commandGenerate: writeEnvExample, which writes the file or throws
GenerateWriteEnvExample ==
    /\ cli.pc = "writeEnvExample"
    /\ \E ok \in BOOLEAN : cli' = WriteEnvExampleStep(cli, ok)
    /\ UNCHANGED <<schema, env, call, files, module>>

\* process.exit(exitCode)
ProcessExit ==
    /\ cli.pc = "exit"
    /\ cli' = [cli EXCEPT !.pc = "exited"]
    /\ UNCHANGED <<schema, env, call, files, module>>

NextCli ==
    \/ MainCommand
    \/ MainOther
    \/ AwaitLoadSchema
    \/ CheckValidate
    \/ GenerateWriteMarkdown
    \/ GenerateWriteEnvExample
    \/ ProcessExit

SpecCli == InitCli /\ [][NextCli]_vars

(***************************************************************************)
(* Properties of validateEnv                                               *)
(***************************************************************************)
\* the last call was validateEnv and it returned a ValidationResult
Returned == call.op = "validateEnv" /\ call.completion.type = "return"

\* the last call was validateEnv and it threw
Thrown == call.op = "validateEnv" /\ call.completion.type = "throw"

\* the last call was validateEnv with throwOnError: false
NonThrowingCall ==
    /\ call.op = "validateEnv"
    /\ "throwOnError" \in DOMAIN call.options
    /\ call.options.throwOnError = FALSE

\* the snapshot gives the variable a non-empty value
Supplied(key) == key \in DOMAIN env /\ env[key] # ""

\* the value the variable resolves to: the snapshot's, else the default, else absent
Resolved(entry) ==
    IF Supplied(entry.key) THEN env[entry.key]
    ELSE IF "default" \in DOMAIN entry.config THEN entry.config.default
    ELSE Undefined

\* the variable is required, has no value and no default
MissingRequired(entry) ==
    /\ entry.config.required = TRUE
    /\ ~Supplied(entry.key)
    /\ "default" \notin DOMAIN entry.config

\* the variable's allowed list is non-empty and its resolved value is present and no member
NotAllowed(entry) ==
    /\ "allowed" \in DOMAIN entry.config
    /\ entry.config.allowed # <<>>
    /\ Resolved(entry) # Undefined
    /\ \A i \in DOMAIN entry.config.allowed : entry.config.allowed[i] # Resolved(entry)

Fails(entry) == MissingRequired(entry) \/ NotAllowed(entry)

EntryOf(key) == CHOOSE entry \in {schema[i] : i \in DOMAIN schema} : entry.key = key

IsMissingRecord(error) == error.message[1] = "Missing environment variable: "

IsInvalidRecord(error) == error.message[1] = "Invalid value for "

\* C1: in non-throwing mode validateEnv returns a values mapping whose keys are exactly
\* the schema's keys, each mapped to the snapshot's value when present and non-empty,
\* otherwise to the default, otherwise to undefined, whether or not the variable fails
C1_ValuesPerSchemaKey ==
    NonThrowingCall =>
        /\ Returned
        /\ DOMAIN call.completion.value.values = SchemaKeys(schema)
        /\ \A i \in DOMAIN schema :
              call.completion.value.values[schema[i].key] = Resolved(schema[i])

\* a non-throwing call with a failing variable, a variable resolved from the snapshot,
\* one resolved from its default, and one the snapshot sets to the empty string
C1_Witness ==
    /\ NonThrowingCall
    /\ Returned
    /\ \E i \in DOMAIN schema : Fails(schema[i])
    /\ \E i \in DOMAIN schema : Supplied(schema[i].key)
    /\ \E i \in DOMAIN schema :
          ~Supplied(schema[i].key) /\ "default" \in DOMAIN schema[i].config
    /\ \E i \in DOMAIN schema : schema[i].key \in DOMAIN env /\ env[schema[i].key] = ""

\* C2 as stated: a key is in the violations only if it is required without value and
\* default, or its resolved value is NON-EMPTY and not in a non-empty allowed list; and
\* no key has both a missing-required and an invalid-value violation
C2_AsStated ==
    Returned =>
        LET errors == call.completion.value.errors
            values == call.completion.value.values
        IN  /\ \A i \in DOMAIN errors :
                  LET entry == EntryOf(errors[i].variable)
                  IN  \/ MissingRequired(entry)
                      \/ /\ values[entry.key] # Undefined
                         /\ values[entry.key] # ""
                         /\ NotAllowed(entry)
            /\ \A i, j \in DOMAIN errors :
                  errors[i].variable = errors[j].variable =>
                      ~(IsMissingRecord(errors[i]) /\ IsInvalidRecord(errors[j]))

\* C2 amended: a key is in the violations only if it is required without value and
\* default, or its resolved value is present (possibly the empty string, from an empty
\* default) and not in a non-empty allowed list; and no key has both kinds of violation
C2_ViolationOnlyIfFails ==
    Returned =>
        LET errors == call.completion.value.errors
            values == call.completion.value.values
        IN  /\ \A i \in DOMAIN errors :
                  /\ errors[i].variable \in SchemaKeys(schema)
                  /\ LET entry == EntryOf(errors[i].variable)
                     IN  \/ MissingRequired(entry)
                         \/ /\ values[entry.key] # Undefined
                            /\ NotAllowed(entry)
            /\ \A i, j \in DOMAIN errors :
                  errors[i].variable = errors[j].variable =>
                      ~(IsMissingRecord(errors[i]) /\ IsInvalidRecord(errors[j]))

\* an outcome with a missing-required violation and an invalid-value violation, the
\* latter for an empty default
C2_Witness ==
    /\ Returned
    /\ \E i, j \in DOMAIN call.completion.value.errors :
          /\ IsMissingRecord(call.completion.value.errors[i])
          /\ IsInvalidRecord(call.completion.value.errors[j])
          /\ call.completion.value.values[call.completion.value.errors[j].variable] = ""

\* C3: the violations are exactly the failing variables (required check or enum check),
\* one record each, in schema order; valid is true exactly when there is none
C3_ViolationsInSchemaOrder ==
    Returned =>
        LET errors == call.completion.value.errors
            failing == SelectSeq(schema, LAMBDA entry : Fails(entry))
        IN  /\ Len(errors) = Len(failing)
            /\ \A i \in DOMAIN errors : errors[i].variable = failing[i].key
            /\ call.completion.value.valid = (errors = <<>>)

\* an outcome with two violations for a schema that declares B before A
C3_Witness ==
    /\ Returned
    /\ Len(call.completion.value.errors) = 2
    /\ call.completion.value.errors[1].variable = "B"
    /\ ~call.completion.value.valid

\* C4: validateEnv throws exactly when some variable fails and throwOnError is true or
\* omitted; otherwise it returns the outcome with valid, errors and values filled in
C4_ThrowsIffInvalidAndThrowOnError ==
    call.op = "validateEnv" =>
        LET invalid == \E i \in DOMAIN schema : Fails(schema[i])
            throwing == \/ "throwOnError" \notin DOMAIN call.options
                        \/ call.options.throwOnError = TRUE
        IN  /\ Thrown <=> (invalid /\ throwing)
            /\ Returned <=> ~(invalid /\ throwing)
            /\ Returned =>
                  /\ DOMAIN call.completion.value = {"valid", "errors", "values"}
                  /\ call.completion.value.valid = ~invalid
                  /\ (call.completion.value.errors # <<>>) = invalid
                  /\ DOMAIN call.completion.value.values = SchemaKeys(schema)

\* validateEnv threw on an invalid outcome with the option omitted
C4_Witness ==
    /\ Thrown
    /\ "throwOnError" \notin DOMAIN call.options
    /\ \E i \in DOMAIN schema : Fails(schema[i])

\* the snapshot without its empty-string entries
StripEmpty(e) == [k \in {n \in DOMAIN e : e[n] # ""} |-> e[k]]

\* C5: validateEnv gives the same outcome for a snapshot and for that snapshot with
\* every empty-string entry removed
C5_EmptyIsAbsent ==
    call.op = "validateEnv" =>
        call.completion
            = validateEnv(schema, [call.options EXCEPT !.env = StripEmpty(call.options.env)])

\* a call where one variable set to "" resolved to its default and another, required
\* and without default, set to "", is reported missing
C5_Witness ==
    /\ Returned
    /\ \E i \in DOMAIN schema :
          /\ schema[i].key \in DOMAIN env /\ env[schema[i].key] = ""
          /\ "default" \in DOMAIN schema[i].config
          /\ call.completion.value.values[schema[i].key] = schema[i].config.default
    /\ \E j \in DOMAIN call.completion.value.errors :
          /\ IsMissingRecord(call.completion.value.errors[j])
          /\ call.completion.value.errors[j].variable \in DOMAIN env

\* the outcome of the non-throwing call on the same schema and snapshot
NonThrowingOutcome == validateEnv(schema, [env |-> env, throwOnError |-> FALSE]).value

\* C6 as stated: the error thrown carries the ordered list of Violation records the
\* non-throwing call returns
C6_AsStated ==
    Thrown =>
        /\ "errors" \in DOMAIN call.completion.error
        /\ call.completion.error.errors = NonThrowingOutcome.errors

\* C6 amended: the error thrown is a plain Error that carries no Violation records, only
\* the message "Environment validation failed: N error(s)" where N is the number of
\* violations the non-throwing call returns
C6_ErrorCarriesCount ==
    Thrown =>
        /\ DOMAIN call.completion.error = {"name", "message"}
        /\ call.completion.error.name = "Error"
        /\ call.completion.error.message
              = <<"Environment validation failed: ", Len(NonThrowingOutcome.errors), " error(s)">>
        /\ Len(NonThrowingOutcome.errors) >= 1

\* validateEnv threw for two violations
C6_Witness ==
    /\ Thrown
    /\ Len(NonThrowingOutcome.errors) = 2

\* the call completed with an invalid outcome: it threw, or returned valid = false
OutcomeInvalid == Thrown \/ (Returned /\ ~call.completion.value.valid)

ThrowingCall ==
    /\ call.op = "validateEnv"
    /\ "throwOnError" \in DOMAIN call.options => call.options.throwOnError = TRUE

\* the lines written for one violation; an empty description is written when showEmpty
Block(error, showEmpty) ==
    <<<<"message", error.message>>>>
    \o (IF "description" \in DOMAIN error /\ (showEmpty \/ error.description # "")
        THEN <<<<"description", error.description>>>> ELSE <<>>)
    \o (IF "expected" \in DOMAIN error /\ error.expected # <<>>
        THEN <<<<"allowed", error.expected>>>> ELSE <<>>)
    \o <<<<"blank">>>>

\* the rendering of the first n violations, after the three header lines
RECURSIVE Rendering(_, _, _)
Rendering(errors, n, showEmpty) ==
    IF n = 0 THEN <<<<"blank">>, <<"header", "Environment validation failed">>, <<"blank">>>>
    ELSE Rendering(errors, n - 1, showEmpty) \o Block(errors[n], showEmpty)

\* what validateEnv writes to stderr, given whether empty descriptions are written
Diagnostic(showEmpty) ==
    /\ (ThrowingCall /\ ~NonThrowingOutcome.valid) =>
          /\ Thrown
          /\ call.completion.stderr
                = <<Rendering(NonThrowingOutcome.errors, Len(NonThrowingOutcome.errors), showEmpty)>>
    /\ (call.op = "validateEnv" /\ (NonThrowingCall \/ NonThrowingOutcome.valid)) =>
          /\ Returned
          /\ call.completion.stderr = <<>>

\* C13 as stated: in throwing mode with an invalid outcome validateEnv throws after
\* writing one rendering of all violations in order, with each violation's message, its
\* description when PRESENT and its allowed values when the list is non-empty; otherwise
\* it writes nothing
C13_AsStated == Diagnostic(TRUE)

\* C13: in throwing mode with an invalid outcome validateEnv throws after writing one
\* rendering of all violations in order, with each violation's message, its description
\* when present and not the empty string, and its allowed values when the list is
\* non-empty; in non-throwing mode or with a valid outcome it writes nothing
C13_DiagnosticBeforeThrow == Diagnostic(FALSE)

\* a throwing call with two violations: one with a description and allowed values, one
\* with an empty description or an empty allowed list
C13_Witness ==
    /\ Thrown
    /\ Len(NonThrowingOutcome.errors) = 2
    /\ \E i \in 1..2 :
          LET error == NonThrowingOutcome.errors[i]
              other == NonThrowingOutcome.errors[3 - i]
          IN  /\ "description" \in DOMAIN error /\ error.description = "d"
              /\ "expected" \in DOMAIN error /\ error.expected # <<>>
              /\ "description" \in DOMAIN other /\ other.description = ""
              /\ "expected" \in DOMAIN other /\ other.expected = <<>>
    /\ Len(call.completion.stderr) = 1

\* the record carries the spec's property f when the spec has it, and no f otherwise
Carries(error, config, f) ==
    /\ f \in DOMAIN error <=> f \in DOMAIN config
    /\ f \in DOMAIN config => error[f] = config[f]

\* C14: every violation validateEnv returns names a failing variable of the schema,
\* carries that variable's description and allowed list (none when the spec has none),
\* for missing-required and enum failures alike, and its message is
\* 'Missing environment variable: <name>' when the variable is required without value
\* and default, else 'Invalid value for <name>: "<v>"' with v the entry of values
C14_ViolationRecord ==
    Returned =>
        LET errors == call.completion.value.errors
            values == call.completion.value.values
        IN  \A i \in DOMAIN errors :
                /\ errors[i].variable \in SchemaKeys(schema)
                /\ LET entry == EntryOf(errors[i].variable)
                   IN  /\ Fails(entry)
                       /\ Carries(errors[i], entry.config, "description")
                       /\ "expected" \in DOMAIN errors[i] <=> "allowed" \in DOMAIN entry.config
                       /\ "allowed" \in DOMAIN entry.config
                            => errors[i].expected = entry.config.allowed
                       /\ DOMAIN errors[i]
                            \subseteq {"variable", "message", "description", "expected"}
                       /\ errors[i].message
                            = IF MissingRequired(entry)
                              THEN <<"Missing environment variable: ", entry.key>>
                              ELSE <<"Invalid value for ", entry.key, ": \"",
                                     values[entry.key], "\"">>
                       /\ ~MissingRequired(entry) => values[entry.key] = Resolved(entry)

\* validateEnv returned a missing-required violation carrying a non-empty allowed list
\* and a description, and an enum violation carrying its allowed list and no description
C14_Witness ==
    /\ Returned
    /\ Len(call.completion.value.errors) = 2
    /\ \E i \in 1..2 :
          LET missing == call.completion.value.errors[i]
              invalid == call.completion.value.errors[3 - i]
          IN  /\ IsMissingRecord(missing)
              /\ "expected" \in DOMAIN missing /\ missing.expected # <<>>
              /\ "description" \in DOMAIN missing
              /\ IsInvalidRecord(invalid)
              /\ "expected" \in DOMAIN invalid
              /\ "description" \notin DOMAIN invalid

\* the spec has a default that is not in its own non-empty allowed list
DefaultNotAllowed(config) ==
    /\ "default" \in DOMAIN config
    /\ "allowed" \in DOMAIN config
    /\ config.allowed # <<>>
    /\ \A j \in DOMAIN config.allowed : config.allowed[j] # config.default

\* the violations of the non-throwing outcome that name the variable
ViolationsOf(key) ==
    {j \in DOMAIN NonThrowingOutcome.errors : NonThrowingOutcome.errors[j].variable = key}

\* C16: for a variable whose default is not in its own non-empty allowed list, required
\* or not, validateEnv reports exactly an 'Invalid value' violation quoting the default
\* whenever the snapshot leaves the variable absent or empty (and throws in throwing
\* mode), and reports no violation for the variable only when the snapshot supplies a
\* non-empty member of allowed
C16_DefaultIsEnumChecked ==
    call.op = "validateEnv" =>
        \A i \in DOMAIN schema :
            DefaultNotAllowed(schema[i].config) =>
                LET key == schema[i].key
                    config == schema[i].config
                IN  /\ ~Supplied(key) =>
                          /\ Cardinality(ViolationsOf(key)) = 1
                          /\ \A j \in ViolationsOf(key) :
                                NonThrowingOutcome.errors[j].message
                                    = <<"Invalid value for ", key, ": \"", config.default, "\"">>
                          /\ ThrowingCall => Thrown
                          /\ Returned => call.completion.value = NonThrowingOutcome
                    /\ ViolationsOf(key) = {} <=>
                          /\ Supplied(key)
                          /\ \E j \in DOMAIN config.allowed : config.allowed[j] = env[key]

\* a required variable with default "z" and allowed list <<"x">> is set to the empty
\* string in the snapshot and validateEnv returned its violation quoting "z"
C16_Witness ==
    /\ Returned
    /\ \E i \in DOMAIN schema :
          /\ DefaultNotAllowed(schema[i].config)
          /\ schema[i].config.required = TRUE
          /\ schema[i].config.default = "z"
          /\ schema[i].key \in DOMAIN env
          /\ env[schema[i].key] = ""
          /\ \E j \in DOMAIN call.completion.value.errors :
                call.completion.value.errors[j].message
                    = <<"Invalid value for ", schema[i].key, ": \"", "z", "\"">>

\* C12: getEnv and isEnvValid never throw, whatever the options; getEnv returns the
\* values[key] entry of the non-throwing validateEnv outcome (undefined for a key that
\* is not in the schema) and isEnvValid returns that outcome's valid flag
C12_WrappersNeverThrow ==
    /\ call.op = "getEnv" =>
          /\ call.completion.type = "return"
          /\ call.completion.stderr = <<>>
          /\ call.completion.value
                = IF call.key \in SchemaKeys(schema)
                  THEN NonThrowingOutcome.values[call.key] ELSE Undefined
          /\ call.key \in SchemaKeys(schema)
                => call.completion.value = Resolved(EntryOf(call.key))
    /\ call.op = "isEnvValid" =>
          /\ call.completion.type = "return"
          /\ call.completion.stderr = <<>>
          /\ call.completion.value = NonThrowingOutcome.valid
          /\ call.completion.value = ~(\E i \in DOMAIN schema : Fails(schema[i]))

\* getEnv was called with throwOnError: true on an invalid environment and returned the
\* default of a variable
C12_Witness ==
    /\ call.op = "getEnv"
    /\ "throwOnError" \in DOMAIN call.options
    /\ call.options.throwOnError = TRUE
    /\ \E i \in DOMAIN schema : Fails(schema[i])
    /\ \E i \in DOMAIN schema :
          /\ schema[i].key = call.key
          /\ ~Supplied(call.key)
          /\ "default" \in DOMAIN schema[i].config
          /\ call.completion.value = schema[i].config.default

ConformsToSchemaShape(v) ==
    v.t = "object" /\ \A i \in DOMAIN v.entries : v.entries[i].config.t = "object"

\* C10: loadSchema never returns a value that does not conform to the schema shape (it
\* fails with the schema-invalid error naming the export names instead)
C10_AsStated ==
    (call.op = "loadSchema" /\ call.completion.type = "return")
        => ConformsToSchemaShape(call.completion.value)

\* the documented search order of the schema file names
DocumentedOrder ==
    <<"env.schema.ts", "env.schema.js", "env.schema.mjs", "env.schema.cjs",
      "envguard.config.ts", "envguard.config.js", "envguard.config.mjs",
      "envguard.config.cjs">>

\* path is the first file of the documented order that exists, or null when none does
IsFirstExisting(path) ==
    IF \A i \in DOMAIN DocumentedOrder : DocumentedOrder[i] \notin files
    THEN path = NoPath
    ELSE \E i \in DOMAIN DocumentedOrder :
            /\ path = <<Cwd, DocumentedOrder[i]>>
            /\ DocumentedOrder[i] \in files
            /\ \A j \in 1..(i - 1) : DocumentedOrder[j] \notin files

\* C11: findSchemaFile returns the first existing file in the documented order and null
\* exactly when none of the eight exists; loadSchema without a path imports that same
\* file, and fails with the schema-not-found error when there is none
C11_FirstExistingSchemaFile ==
    /\ call.op = "findSchemaFile" => IsFirstExisting(call.completion.value)
    /\ (call.op = "loadSchema" /\ call.filePath = Undefined) =>
          /\ IsFirstExisting(call.imported)
          /\ (call.imported = NoPath) <=>
                (call.completion.type = "throw" /\ call.completion.error.kind = "notFound")
          /\ call.completion.type = "throw" /\ call.completion.error.kind = "notFound" =>
                call.completion.error.message[2] = DocumentedOrder

\* findSchemaFile was called where two candidates exist and neither is the first of the
\* list
C11_Witness ==
    /\ call.op = "findSchemaFile"
    /\ Cardinality(files \ {CustomFile}) = 2
    /\ "env.schema.ts" \notin files
    /\ call.completion.value # NoPath

(***************************************************************************)
(* Properties of the command line                                          *)
(***************************************************************************)
\* the completion of the loadSchema call the command made
CommandLoad == loadSchema(ArgSchema(cli.args), Cwd, files, module, cli.imp)

\* a schema was located and loaded, and the non-throwing validation of the process
\* environment against it is valid
CheckSucceeds ==
    /\ Located(cli.args, files)
    /\ cli.imp # "none"
    /\ CommandLoad.type = "return"
    /\ LET completion == validateEnv(CommandLoad.value.entries,
                                     [env |-> env, throwOnError |-> FALSE])
       IN  completion.type = "return" /\ completion.value.valid

\* C8: the check command exits with 0 exactly when a schema was located and loaded and
\* the validation is valid, with 1 otherwise (invalid, no schema file, load failure),
\* and no error escapes the command
C8_CheckExitCode ==
    cli.pc # "idle" =>
        /\ ~cli.uncaught
        /\ (cli.pc = "exited" /\ cli.args.command = "check") =>
              /\ cli.exitCode \in {0, 1}
              /\ (cli.exitCode = 0) <=> CheckSucceeds

\* the check command has exited with 1 after a schema was loaded and found invalid
C8_Witness ==
    /\ cli.pc = "exited"
    /\ cli.args.command = "check"
    /\ cli.exitCode = 1
    /\ cli.load.type = "return"
    /\ \E i \in DOMAIN cli.log : cli.log[i][1] = "error" /\ cli.log[i][2] = "Validation failed with"

GenerateSteps == <<"loadSchema", "writeMarkdown", "writeEnvExample">>

Confirmed(file) == \E i \in DOMAIN cli.log : cli.log[i] = <<"success", "Generated", file>>

Written(file) == \E i \in DOMAIN cli.written : cli.written[i] = file

StepCompleted(step) == \E i \in DOMAIN cli.steps : cli.steps[i] = [step |-> step, ok |-> TRUE]

\* C9: the generate command attempts schema loading, the markdown write and the
\* env-example write in this order, attempts nothing after a failed step, exits with 0
\* only if all three succeeded and with 1 on any failure (schema not found included), and
\* prints the confirmation of an artifact only when its write completed
C9_GenerateStepsInOrder ==
    (cli.pc # "idle" /\ cli.args.command = "generate") =>
        /\ Len(cli.steps) <= 3
        /\ \A i \in DOMAIN cli.steps : cli.steps[i].step = GenerateSteps[i]
        /\ \A i \in DOMAIN cli.steps : i < Len(cli.steps) => cli.steps[i].ok
        /\ ~Located(cli.args, files) => cli.steps = <<>>
        /\ Confirmed(MdFile) <=> StepCompleted("writeMarkdown")
        /\ Confirmed(EnvFile) <=> StepCompleted("writeEnvExample")
        /\ Written(MdFile) <=> StepCompleted("writeMarkdown")
        /\ Written(EnvFile) <=> StepCompleted("writeEnvExample")
        /\ cli.pc = "exited" =>
              /\ cli.exitCode \in {0, 1}
              /\ (cli.exitCode = 0)
                    <=> (Len(cli.steps) = 3 /\ \A i \in DOMAIN cli.steps : cli.steps[i].ok)

\* the generate command has exited with 1 after writing the markdown artifact and
\* failing to write the env-example artifact
C9_Witness ==
    /\ cli.pc = "exited"
    /\ cli.args.command = "generate"
    /\ cli.exitCode = 1
    /\ Confirmed(MdFile)
    /\ ~Confirmed(EnvFile)
    /\ Len(cli.steps) = 3

====
